---- MODULE Spec2Model ----
(***************************************************************************)
(* seed_data of seeder.py and of seeder_rc.py, run side by side against    *)
(* two databases that start out equal.  One state holds both runs; every   *)
(* action is one step of seed_data, taken by both scripts with the same    *)
(* counts, the same random draws and the same database outcome.            *)
(*                                                                         *)
(* The database is modelled per run as two views: db, what the session's   *)
(* open transaction sees, and committed, what a commit has made durable.   *)
(* Values produced by Faker or by random.uniform are kept as the name of   *)
(* their generator; identifiers are <<table, n>> as the RETURNING clause   *)
(* hands them back.                                                        *)
(***************************************************************************)
EXTENDS Integers, Sequences, FiniteSets, TLC

----------------------------------------------------------------------------
(* Bounds of the model.                                                    *)

\* rng = "free": every outcome of every random call is explored, for counts
\* with 2|N| + 2|M| + |K| <= MaxFreeTotal.
MaxFreeTotal == 6
\* rng = "seeded": the random calls follow a generator started from a seed,
\* for counts up to these.
MaxParties == 2
MaxParcels == 55
MaxBills == 4
MaxSeed == 2
\* Rows each table holds before the run.
MaxPre == 1

----------------------------------------------------------------------------
(* Program constants.                                                      *)

SuppDiv == 5
SuppCap == 10

Scripts == {"seeder", "seeder_rc"}

party_types == <<"Individual", "Company", "GovAgency">>

tra_codes == <<"TRA_001", "TRA_002", "TRA_003">>

tax_rates_data == <<"Base Prop 13 Rate", "Local Bond Measure", "Special School Tax">>

NULL == <<"NULL", 0>>

NoExc == [type |-> "none", at |-> ""]

Min(a, b) == IF a <= b THEN a ELSE b

Max(a, b) == IF a >= b THEN a ELSE b

Abs(a) == IF a >= 0 THEN a ELSE -a

Range(q) == {q[t] : t \in DOMAIN q}

----------------------------------------------------------------------------
VARIABLES
    num_parties,    \* --num_parties
    num_parcels,    \* --num_parcels
    num_bills,      \* --num_bills
    pre,            \* rows per table before the run
    rng,            \* "free" or "seeded"
    rnd,            \* state of the random generator (seeded mode)
    st              \* st[s]: the frame of seed_data of script s and its database

vars == <<num_parties, num_parcels, num_bills, pre, rng, rnd, st>>

----------------------------------------------------------------------------
(* The random module.                                                      *)

NextRnd(r) == (7 * r + 3) % 31

\* The draws explored for a call that picks among n alternatives.
DrawSet(n) == IF rng = "free" THEN 0 .. Max(n - 1, 0) ELSE {rnd}

\* A second call in the same step.
DrawSet2(n) == IF rng = "free" THEN 0 .. Max(n - 1, 0) ELSE {NextRnd(rnd)}

\* random.choice(seq), for a non-empty seq
Pick(seq, u) == seq[(u % Len(seq)) + 1]

InjSeqs(n, k) ==
    {q \in [1 .. k -> 1 .. n] : \A a, b \in 1 .. k : a # b => q[a] # q[b]}

Rotation(n, k, u) == [t \in 1 .. k |-> ((u + t - 1) % n) + 1]

\* The position lists explored for random.sample(population of n, k).
SampleDraws(n, k) ==
    IF rng = "free" THEN InjSeqs(n, k) ELSE {Rotation(n, k, rnd)}

\* Mutant: the sample is drawn with replacement.
SampleWithRepeats(seq, k, q) == [t \in 1 .. k |-> seq[q[1]]]

\* random.sample(seq, k): k elements at pairwise distinct positions.
Sample(seq, k, q) == [t \in 1 .. k |-> seq[q[t]]]

Advance(k) ==
    rnd' = IF rng = "free" THEN rnd
           ELSE IF k = 1 THEN NextRnd(rnd) ELSE NextRnd(NextRnd(rnd))

----------------------------------------------------------------------------
(* The database.                                                           *)

Tables ==
    {"party", "spatial", "baunit", "tra", "taxrate", "assessment", "supp",
     "rrr", "bill", "payment"}

\* The rows the schema's owner left in the tables before the run.
PreDB(p) ==
    [party      |-> [t \in 1 .. p |-> [party_id |-> <<"party", t>>,
                                        party_name |-> "existing",
                                        party_type |-> "Individual"]],
     spatial    |-> [t \in 1 .. p |-> [spatial_unit_id |-> <<"spatial", t>>,
                                        geometry |-> "existing",
                                        address |-> "existing"]],
     baunit     |-> [t \in 1 .. p |-> [ba_unit_id |-> <<"baunit", t>>,
                                        spatial_unit_id |-> <<"spatial", t>>,
                                        tra_id |-> <<"tra", t>>,
                                        description |-> "existing"]],
     tra        |-> [t \in 1 .. p |-> [tra_id |-> <<"tra", t>>,
                                        tra_code |-> "existing"]],
     taxrate    |-> [t \in 1 .. p |-> [tax_rate_id |-> <<"taxrate", t>>,
                                        rate_name |-> "existing"]],
     assessment |-> [t \in 1 .. p |-> [ba_unit_id |-> <<"baunit", t>>,
                                        tax_rate_id |-> <<"taxrate", t>>]],
     supp       |-> [t \in 1 .. p |-> [ba_unit_id |-> <<"baunit", t>>,
                                        tax_rate_id |-> <<"taxrate", t>>]],
     rrr        |-> [t \in 1 .. p |-> [rrr_type |-> "Ownership",
                                        ba_unit_id |-> <<"baunit", t>>,
                                        party_id |-> <<"party", t>>]],
     bill       |-> [t \in 1 .. p |-> [bill_date |-> "existing",
                                        bill_uid |-> <<"bill", t>>,
                                        ba_unit_id |-> <<"baunit", t>>,
                                        party_id |-> <<"party", t>>,
                                        is_paid |-> TRUE]],
     payment    |-> [t \in 1 .. p |-> [payment_date |-> "existing",
                                        bill_date |-> "existing",
                                        bill_uid |-> <<"bill", t>>]]]

\* The key a serial column gives the next row of a table.
NewId(d, tbl) == <<tbl, Len(d[tbl]) + 1>>

\* INSERT INTO tbl ... VALUES row
Insert(d, tbl, row) == [d EXCEPT ![tbl] = Append(@, row)]

\* Mutant: the WHERE clause compares the wrong column.
UpdateTraWrongKey(d, tra, buid) ==
    [d EXCEPT !.baunit =
        [t \in DOMAIN @ |-> IF @[t].spatial_unit_id = buid
                            THEN [@[t] EXCEPT !.tra_id = tra]
                            ELSE @[t]]]

\* UPDATE ladm.LA_BAUnit SET tra_id = tra WHERE ba_unit_id = buid
UpdateTra(d, tra, buid) ==
    [d EXCEPT !.baunit =
        [t \in DOMAIN @ |-> IF @[t].ba_unit_id = buid
                            THEN [@[t] EXCEPT !.tra_id = tra]
                            ELSE @[t]]]

\* UPDATE ladm.TaxBill SET is_paid = TRUE WHERE bill_date = .. AND bill_uid = ..
UpdatePaid(d, key) ==
    [d EXCEPT !.bill =
        [t \in DOMAIN @ |-> IF /\ @[t].bill_date = key.bill_date
                               /\ @[t].bill_uid = key.bill_uid
                            THEN [@[t] EXCEPT !.is_paid = TRUE]
                            ELSE @[t]]]

----------------------------------------------------------------------------
(* The frame of seed_data.                                                 *)

InitRun(p) ==
    [pc              |-> "start",
     i               |-> 0,
     j               |-> 0,
     how_many        |-> 0,
     party_ids       |-> <<>>,
     spatial_ids     |-> <<>>,
     baunit_ids      |-> <<>>,
     tra_ids_map     |-> <<>>,
     tax_rate_ids    |-> <<>>,
     subset_for_supp |-> <<>>,
     inserted_bills  |-> <<>>,
     half_bills      |-> <<>>,
     db              |-> PreDB(p),
     committed       |-> PreDB(p),
     conn            |-> "none",
     cur             |-> "none",
     exc             |-> NoExc,      \* the exception in flight
     first_exc       |-> NoExc,      \* the exception the try block raised
     rollbacks       |-> 0,          \* calls of conn.rollback()
     commits         |-> 0,          \* calls of conn.commit()
     out             |-> <<>>]       \* the lines printed

\* The parcel counts seeded runs are started with: the values around each
\* multiple of SuppDiv, near zero (small) and near the cap of the supplemental
\* subset (large).
SeededParcels ==
    {m \in -1 .. MaxParcels : m % SuppDiv \in {0, SuppDiv - 1}}

SmallParcels == {m \in SeededParcels : m <= 2 * SuppDiv}

LargeParcels == {m \in SeededParcels : m >= SuppCap * SuppDiv - 1}

Init ==
    /\ pre \in 0 .. MaxPre
    /\ \/ /\ rng = "free"
          /\ rnd = 0
          /\ num_parties \in -1 .. MaxFreeTotal
          /\ num_parcels \in -1 .. MaxFreeTotal
          /\ num_bills \in -1 .. MaxFreeTotal
          /\ 2 * Abs(num_parties) + 2 * Abs(num_parcels) + Abs(num_bills)
                <= MaxFreeTotal
       \/ /\ rng = "seeded"
          /\ rnd \in 0 .. MaxSeed - 1
          /\ \/ /\ num_parties \in 1 .. MaxParties
                /\ num_parcels \in SmallParcels
                /\ num_bills \in -1 .. MaxBills
             \/ /\ num_parties = MaxParties
                /\ num_parcels \in LargeParcels
                /\ num_bills = MaxBills
    /\ st = [s \in Scripts |-> InitRun(pre)]

At(p) == \A s \in Scripts : st[s].pc = p

\* The longest of the two runs' lists named f.
MaxLen(f) ==
    CHOOSE m \in {Len(st[s][f]) : s \in Scripts} :
        \A s \in Scripts : m >= Len(st[s][f])

----------------------------------------------------------------------------
(* Exceptions.                                                             *)

\* psycopg2 raising from cur.execute / conn.commit at program point at
DbError(at) == [type |-> "psycopg2.Error", at |-> at]

\* random.choice of an empty list
IndexError(at) == [type |-> "IndexError", at |-> at]

RollbackError == [type |-> "psycopg2.Error", at |-> "rollback"]

CursorCloseError == [type |-> "psycopg2.Error", at |-> "cur.close"]

\* The frame's lists once the try block is left by an exception: nothing reads
\* them again.
DropLocals(r) ==
    [r EXCEPT !.i = 0, !.j = 0, !.how_many = 0,
              !.party_ids = <<>>, !.spatial_ids = <<>>, !.baunit_ids = <<>>,
              !.tra_ids_map = <<>>, !.tax_rate_ids = <<>>,
              !.subset_for_supp = <<>>, !.inserted_bills = <<>>,
              !.half_bills = <<>>]

\* Mutant: the handler commits what the transaction holds.
HandlerCommits(r, e, rb_ok) ==
    [DropLocals(r) EXCEPT
        !.pc = "finally",
        !.first_exc = e,
        !.committed = r.db,
        !.exc = e]

\* except Exception as e: conn.rollback(); print(...); raise e
\* e left the try block; rb_ok: conn.rollback() returns.  A rollback that raises
\* replaces e, skips the print and leaves the transaction to be discarded with
\* the session: no statement of the run reads the view again.
Handler(r, e, rb_ok) ==
    [DropLocals(r) EXCEPT
        !.pc = "finally",
        !.first_exc = e,
        !.rollbacks = @ + 1,
        !.db = r.committed,
        !.exc = IF rb_ok THEN e ELSE RollbackError,
        !.out = IF rb_ok
                THEN Append(@, "Error during seeding. Rolled back transaction.")
                ELSE @]

\* Mutant: the connection is left in autocommit mode.
ExecuteAutocommit(r, ok, rb_ok, done) ==
    IF ok THEN [done EXCEPT !.committed = done.db]
    ELSE [DropLocals(r) EXCEPT
             !.pc = "finally",
             !.first_exc = DbError(r.pc),
             !.rollbacks = @ + 1,
             !.db = r.committed,
             !.exc = DbError(r.pc)]

\* cur.execute(...) inside the try block: the statement takes effect (done), or
\* psycopg2 raises and the handler runs.
Execute(r, ok, rb_ok, done) ==
    IF ok THEN done ELSE Handler(r, DbError(r.pc), rb_ok)

----------------------------------------------------------------------------
(* Acquisition: lines 65-73 (seeder.py), 123-131 (seeder_rc.py).           *)

ConnectStep(r, ok) ==
    IF ok
    THEN [r EXCEPT !.pc = "connected", !.conn = "open"]
    ELSE [r EXCEPT !.pc = "exited", !.exc = DbError("connect")]

\* conn = psycopg2.connect(...)
Connect ==
    /\ At("start")
    /\ \E ok \in BOOLEAN : st' = [s \in Scripts |-> ConnectStep(st[s], ok)]
    /\ UNCHANGED <<num_parties, num_parcels, num_bills, pre, rng, rnd>>

\* conn.autocommit = False; cur = conn.cursor(): both before the try statement,
\* so an exception here leaves seed_data at once.
CursorStep(r, ok) ==
    IF ok
    THEN [r EXCEPT !.pc = "try", !.cur = "open"]
    ELSE [r EXCEPT !.pc = "exited", !.exc = DbError("cursor")]

CreateCursor ==
    /\ At("connected")
    /\ \E ok \in BOOLEAN : st' = [s \in Scripts |-> CursorStep(st[s], ok)]
    /\ UNCHANGED <<num_parties, num_parcels, num_bills, pre, rng, rnd>>

----------------------------------------------------------------------------
(* 1) PARTIES                                                              *)

BeginPartiesStep(r) ==
    [r EXCEPT !.pc = "parties", !.i = 0, !.party_ids = <<>>,
              !.out = @ \o <<"=== Seeding Start ===", "Inserting Parties...">>]

BeginParties ==
    /\ At("try")
    /\ st' = [s \in Scripts |-> BeginPartiesStep(st[s])]
    /\ UNCHANGED <<num_parties, num_parcels, num_bills, pre, rng, rnd>>

\* Mutant: the last branch returns the wrong type.
generate_riverside_party_wrong_type(party_type) ==
    IF party_type = "Individual" THEN <<"fake.name", "Individual">>
    ELSE IF party_type = "Company" THEN <<"RIVERSIDE_BUSINESSES", "Company">>
    ELSE <<"RIVERSIDE_AGENCIES", "Company">>

\* generate_riverside_party(party_type): the vocabulary the name is drawn from
generate_riverside_party(party_type) ==
    IF party_type = "Individual" THEN <<"fake.name", "Individual">>
    ELSE IF party_type = "Company" THEN <<"RIVERSIDE_BUSINESSES", "Company">>
    ELSE <<"RIVERSIDE_AGENCIES", "GovAgency">>

PartyRow(s, id, u) ==
    IF s = "seeder"
    THEN [party_id |-> id, party_name |-> "fake.name",
          party_type |-> Pick(party_types, u)]
    ELSE LET g == generate_riverside_party(Pick(party_types, u))
         IN  [party_id |-> id, party_name |-> g[1], party_type |-> g[2]]

InsertPartyStep(s, r, u) ==
    LET new_id == NewId(r.db, "party")
    IN  [r EXCEPT !.db = Insert(@, "party", PartyRow(s, new_id, u)),
                  !.party_ids = Append(@, new_id),
                  !.i = @ + 1]

InsertParty ==
    /\ At("parties")
    /\ \A s \in Scripts : st[s].i < num_parties
    /\ \E u \in DrawSet(Len(party_types)), ok \in BOOLEAN, rb_ok \in BOOLEAN :
          st' = [s \in Scripts |->
                    Execute(st[s], ok, rb_ok, InsertPartyStep(s, st[s], u))]
    /\ Advance(1)
    /\ UNCHANGED <<num_parties, num_parcels, num_bills, pre, rng>>

----------------------------------------------------------------------------
(* 2) SPATIAL UNITS                                                        *)

BeginSpatialStep(r) ==
    [r EXCEPT !.pc = "spatial", !.i = 0, !.spatial_ids = <<>>,
              !.out = Append(@, "Inserting SpatialUnits...")]

BeginSpatial ==
    /\ At("parties")
    /\ \A s \in Scripts : st[s].i >= num_parties
    /\ st' = [s \in Scripts |-> BeginSpatialStep(st[s])]
    /\ UNCHANGED <<num_parties, num_parcels, num_bills, pre, rng, rnd>>

SpatialRow(s, id) ==
    IF s = "seeder"
    THEN [spatial_unit_id |-> id, geometry |-> "random_point_in_bbox",
          address |-> "fake.address"]
    ELSE [spatial_unit_id |-> id, geometry |-> "random_point_in_riverside",
          address |-> "generate_riverside_address"]

InsertSpatialStep(s, r) ==
    LET sid == NewId(r.db, "spatial")
    IN  [r EXCEPT !.db = Insert(@, "spatial", SpatialRow(s, sid)),
                  !.spatial_ids = Append(@, sid),
                  !.i = @ + 1]

InsertSpatialUnit ==
    /\ At("spatial")
    /\ \A s \in Scripts : st[s].i < num_parcels
    /\ \E ok \in BOOLEAN, rb_ok \in BOOLEAN :
          st' = [s \in Scripts |->
                    Execute(st[s], ok, rb_ok, InsertSpatialStep(s, st[s]))]
    /\ Advance(1)
    /\ UNCHANGED <<num_parties, num_parcels, num_bills, pre, rng>>

----------------------------------------------------------------------------
(* 3) BAUNIT                                                               *)

\* Mutant: the loop over spatial_ids starts at the second element.
BeginBAUnitStepSkipsFirst(r) ==
    [r EXCEPT !.pc = "baunit", !.i = 1, !.baunit_ids = <<>>,
              !.out = Append(@, "Inserting BAUnits...")]

BeginBAUnitStep(r) ==
    [r EXCEPT !.pc = "baunit", !.i = 0, !.baunit_ids = <<>>,
              !.out = Append(@, "Inserting BAUnits...")]

BeginBAUnit ==
    /\ At("spatial")
    /\ \A s \in Scripts : st[s].i >= num_parcels
    /\ st' = [s \in Scripts |-> BeginBAUnitStep(st[s])]
    /\ UNCHANGED <<num_parties, num_parcels, num_bills, pre, rng, rnd>>

\* seeder.py names the tra_id column and passes None; seeder_rc.py names the
\* description column instead, and tra_id takes the column's default.
BAUnitRow(s, id, sid) ==
    IF s = "seeder"
    THEN [ba_unit_id |-> id, spatial_unit_id |-> sid, tra_id |-> NULL,
          description |-> "(default)"]
    ELSE [ba_unit_id |-> id, spatial_unit_id |-> sid, tra_id |-> NULL,
          description |-> "Household Size"]

InsertBAUnitStep(s, r) ==
    LET sid  == r.spatial_ids[r.i + 1]
        buid == NewId(r.db, "baunit")
    IN  [r EXCEPT !.db = Insert(@, "baunit", BAUnitRow(s, buid, sid)),
                  !.baunit_ids = Append(@, buid),
                  !.i = @ + 1]

InsertBAUnit ==
    /\ At("baunit")
    /\ \A s \in Scripts : st[s].i < Len(st[s].spatial_ids)
    /\ \E ok \in BOOLEAN, rb_ok \in BOOLEAN :
          st' = [s \in Scripts |->
                    Execute(st[s], ok, rb_ok, InsertBAUnitStep(s, st[s]))]
    /\ Advance(1)
    /\ UNCHANGED <<num_parties, num_parcels, num_bills, pre, rng>>

----------------------------------------------------------------------------
(* 4) TAX RATE AREA + TAX RATE, and the TRA of each BAUnit                 *)

BeginTaxRateAreaStep(r) ==
    [r EXCEPT !.pc = "tra", !.i = 0, !.tra_ids_map = <<>>,
              !.out = Append(@, "Inserting TaxRateArea & TaxRate...")]

BeginTaxRateArea ==
    /\ At("baunit")
    /\ \A s \in Scripts : st[s].i >= Len(st[s].spatial_ids)
    /\ st' = [s \in Scripts |-> BeginTaxRateAreaStep(st[s])]
    /\ UNCHANGED <<num_parties, num_parcels, num_bills, pre, rng, rnd>>

\* tra_ids_map[code] = tra_id_new: the map keeps the order of tra_codes
InsertTaxRateAreaStep(r) ==
    LET tra_id_new == NewId(r.db, "tra")
    IN  [r EXCEPT !.db = Insert(@, "tra", [tra_id |-> tra_id_new,
                                           tra_code |-> tra_codes[r.i + 1]]),
                  !.tra_ids_map = Append(@, tra_id_new),
                  !.i = @ + 1]

InsertTaxRateArea ==
    /\ At("tra")
    /\ \A s \in Scripts : st[s].i < Len(tra_codes)
    /\ \E ok \in BOOLEAN, rb_ok \in BOOLEAN :
          st' = [s \in Scripts |->
                    Execute(st[s], ok, rb_ok, InsertTaxRateAreaStep(st[s]))]
    /\ UNCHANGED <<num_parties, num_parcels, num_bills, pre, rng, rnd>>

BeginTaxRateStep(r) ==
    [r EXCEPT !.pc = "taxrate", !.i = 0, !.tax_rate_ids = <<>>]

BeginTaxRate ==
    /\ At("tra")
    /\ \A s \in Scripts : st[s].i >= Len(tra_codes)
    /\ st' = [s \in Scripts |-> BeginTaxRateStep(st[s])]
    /\ UNCHANGED <<num_parties, num_parcels, num_bills, pre, rng, rnd>>

InsertTaxRateStep(r) ==
    LET id == NewId(r.db, "taxrate")
    IN  [r EXCEPT !.db = Insert(@, "taxrate", [tax_rate_id |-> id,
                                               rate_name |-> tax_rates_data[r.i + 1]]),
                  !.tax_rate_ids = Append(@, id),
                  !.i = @ + 1]

InsertTaxRate ==
    /\ At("taxrate")
    /\ \A s \in Scripts : st[s].i < Len(tax_rates_data)
    /\ \E ok \in BOOLEAN, rb_ok \in BOOLEAN :
          st' = [s \in Scripts |->
                    Execute(st[s], ok, rb_ok, InsertTaxRateStep(st[s]))]
    /\ UNCHANGED <<num_parties, num_parcels, num_bills, pre, rng, rnd>>

BeginAssignStep(r) == [r EXCEPT !.pc = "assign", !.i = 0]

BeginAssign ==
    /\ At("taxrate")
    /\ \A s \in Scripts : st[s].i >= Len(tax_rates_data)
    /\ st' = [s \in Scripts |-> BeginAssignStep(st[s])]
    /\ UNCHANGED <<num_parties, num_parcels, num_bills, pre, rng, rnd>>

\* assigned_tra = random.choice(list(tra_ids_map.values())); UPDATE ... SET tra_id
AssignTraStep(r, u) ==
    LET buid         == r.baunit_ids[r.i + 1]
        assigned_tra == Pick(r.tra_ids_map, u)
    IN  [r EXCEPT !.db = UpdateTra(@, assigned_tra, buid), !.i = @ + 1]

AssignTra ==
    /\ At("assign")
    /\ \A s \in Scripts : st[s].i < Len(st[s].baunit_ids)
    /\ \E u \in DrawSet(Len(tra_codes)), ok \in BOOLEAN, rb_ok \in BOOLEAN :
          st' = [s \in Scripts |->
                    Execute(st[s], ok, rb_ok, AssignTraStep(st[s], u))]
    /\ Advance(1)
    /\ UNCHANGED <<num_parties, num_parcels, num_bills, pre, rng>>

----------------------------------------------------------------------------
(* 5) TAX ASSESSMENT                                                       *)

BeginAssessmentStep(r) ==
    [r EXCEPT !.pc = "assess", !.i = 0,
              !.out = Append(@, "Inserting TaxAssessments...")]

BeginAssessment ==
    /\ At("assign")
    /\ \A s \in Scripts : st[s].i >= Len(st[s].baunit_ids)
    /\ st' = [s \in Scripts |-> BeginAssessmentStep(st[s])]
    /\ UNCHANGED <<num_parties, num_parcels, num_bills, pre, rng, rnd>>

\* Mutant: the rate is picked from the wrong list.
InsertTaxAssessmentStepWrongList(r, u) ==
    LET buid      == r.baunit_ids[r.i + 1]
        used_rate == Pick(r.tra_ids_map, u)
    IN  [r EXCEPT !.db = Insert(@, "assessment", [ba_unit_id |-> buid,
                                                  tax_rate_id |-> used_rate]),
                  !.i = @ + 1]

InsertTaxAssessmentStep(r, u) ==
    LET buid      == r.baunit_ids[r.i + 1]
        used_rate == Pick(r.tax_rate_ids, u)
    IN  [r EXCEPT !.db = Insert(@, "assessment", [ba_unit_id |-> buid,
                                                  tax_rate_id |-> used_rate]),
                  !.i = @ + 1]

InsertTaxAssessment ==
    /\ At("assess")
    /\ \A s \in Scripts : st[s].i < Len(st[s].baunit_ids)
    /\ \E u \in DrawSet(Len(tax_rates_data)), ok \in BOOLEAN, rb_ok \in BOOLEAN :
          st' = [s \in Scripts |->
                    Execute(st[s], ok, rb_ok, InsertTaxAssessmentStep(st[s], u))]
    /\ Advance(1)
    /\ UNCHANGED <<num_parties, num_parcels, num_bills, pre, rng>>

----------------------------------------------------------------------------
(* 6) SUPPLEMENTAL ASSESSMENT                                              *)

\* Mutant: the cap is missing.
SuppCountNoCap(n) == n \div SuppDiv

\* k = min(len(baunit_ids)//5, 10)
SuppCount(n) == Min(n \div SuppDiv, SuppCap)

BeginSupplementalStep(r, q) ==
    [r EXCEPT !.pc = "supp", !.i = 0,
              !.subset_for_supp =
                  Sample(r.baunit_ids, SuppCount(Len(r.baunit_ids)), q),
              !.out = Append(@, "Inserting SupplementalAssessments...")]

BeginSupplemental ==
    /\ At("assess")
    /\ \A s \in Scripts : st[s].i >= Len(st[s].baunit_ids)
    /\ LET n == MaxLen("baunit_ids")
       IN  \E q \in SampleDraws(n, SuppCount(n)) :
              st' = [s \in Scripts |-> BeginSupplementalStep(st[s], q)]
    /\ Advance(1)
    /\ UNCHANGED <<num_parties, num_parcels, num_bills, pre, rng>>

InsertSupplementalStep(r, u) ==
    LET buid      == r.subset_for_supp[r.i + 1]
        used_rate == Pick(r.tax_rate_ids, u)
    IN  [r EXCEPT !.db = Insert(@, "supp", [ba_unit_id |-> buid,
                                            tax_rate_id |-> used_rate]),
                  !.i = @ + 1]

InsertSupplemental ==
    /\ At("supp")
    /\ \A s \in Scripts : st[s].i < Len(st[s].subset_for_supp)
    /\ \E u \in DrawSet(Len(tax_rates_data)), ok \in BOOLEAN, rb_ok \in BOOLEAN :
          st' = [s \in Scripts |->
                    Execute(st[s], ok, rb_ok, InsertSupplementalStep(st[s], u))]
    /\ Advance(1)
    /\ UNCHANGED <<num_parties, num_parcels, num_bills, pre, rng>>

----------------------------------------------------------------------------
(* 7) RRR                                                                  *)

\* Mutant: the loop over baunit_ids starts at the second element.
BeginRRRStepSkipsFirst(r) ==
    [r EXCEPT !.pc = "rrr", !.i = Min(1, Len(r.baunit_ids)),
              !.out = Append(@, "Inserting RRR (Ownership)...")]

BeginRRRStep(r) ==
    [r EXCEPT !.pc = "rrr", !.i = 0,
              !.out = Append(@, "Inserting RRR (Ownership)...")]

BeginRRR ==
    /\ At("supp")
    /\ \A s \in Scripts : st[s].i >= Len(st[s].subset_for_supp)
    /\ st' = [s \in Scripts |-> BeginRRRStep(st[s])]
    /\ UNCHANGED <<num_parties, num_parcels, num_bills, pre, rng, rnd>>

\* Mutant: a unit is passed over when there is no party to choose.
InsertRRRStepSkipsEmpty(r, u, ok, rb_ok) ==
    IF r.party_ids = <<>> THEN [r EXCEPT !.i = @ + 1]
    ELSE LET buid         == r.baunit_ids[r.i + 1]
             party_choice == Pick(r.party_ids, u)
         IN  Execute(r, ok, rb_ok,
                 [r EXCEPT !.db = Insert(@, "rrr", [rrr_type |-> "Ownership",
                                                    ba_unit_id |-> buid,
                                                    party_id |-> party_choice]),
                           !.i = @ + 1])

\* party_choice = random.choice(party_ids) raises IndexError on an empty list
InsertRRRStep(r, u, ok, rb_ok) ==
    IF r.party_ids = <<>> THEN Handler(r, IndexError(r.pc), rb_ok)
    ELSE LET buid         == r.baunit_ids[r.i + 1]
             party_choice == Pick(r.party_ids, u)
         IN  Execute(r, ok, rb_ok,
                 [r EXCEPT !.db = Insert(@, "rrr", [rrr_type |-> "Ownership",
                                                    ba_unit_id |-> buid,
                                                    party_id |-> party_choice]),
                           !.i = @ + 1])

InsertRRR ==
    /\ At("rrr")
    /\ \A s \in Scripts : st[s].i < Len(st[s].baunit_ids)
    /\ LET n == MaxLen("party_ids")
       IN  \E u \in DrawSet(n), ok \in BOOLEAN, rb_ok \in BOOLEAN :
              st' = [s \in Scripts |-> InsertRRRStep(st[s], u, ok, rb_ok)]
    /\ Advance(1)
    /\ UNCHANGED <<num_parties, num_parcels, num_bills, pre, rng>>

----------------------------------------------------------------------------
(* 8) TAX BILLS                                                            *)

BeginBillsStep(r) ==
    [r EXCEPT !.pc = "bills", !.i = 0, !.inserted_bills = <<>>,
              !.out = Append(@, "Inserting TaxBills...")]

BeginBills ==
    /\ At("rrr")
    /\ \A s \in Scripts : st[s].i >= Len(st[s].baunit_ids)
    /\ st' = [s \in Scripts |-> BeginBillsStep(st[s])]
    /\ UNCHANGED <<num_parties, num_parcels, num_bills, pre, rng, rnd>>

\* buid = random.choice(baunit_ids); pid = random.choice(party_ids);
\* INSERT ... RETURNING bill_date, bill_uid
InsertTaxBillStep(r, u1, u2, ok, rb_ok) ==
    IF r.baunit_ids = <<>> \/ r.party_ids = <<>>
    THEN Handler(r, IndexError(r.pc), rb_ok)
    ELSE LET buid    == Pick(r.baunit_ids, u1)
             pid     == Pick(r.party_ids, u2)
             bill_dt == "date_between(-3y, today)"
             uid     == NewId(r.db, "bill")
         IN  Execute(r, ok, rb_ok,
                 [r EXCEPT !.db = Insert(@, "bill", [bill_date |-> bill_dt,
                                                     bill_uid |-> uid,
                                                     ba_unit_id |-> buid,
                                                     party_id |-> pid,
                                                     is_paid |-> FALSE]),
                           !.inserted_bills =
                               Append(@, [bill_date |-> bill_dt, bill_uid |-> uid]),
                           !.i = @ + 1])

InsertTaxBill ==
    /\ At("bills")
    /\ \A s \in Scripts : st[s].i < num_bills
    /\ LET n1 == MaxLen("baunit_ids")
           n2 == MaxLen("party_ids")
       IN  \E u1 \in DrawSet(n1), u2 \in DrawSet2(n2),
              ok \in BOOLEAN, rb_ok \in BOOLEAN :
              st' = [s \in Scripts |-> InsertTaxBillStep(st[s], u1, u2, ok, rb_ok)]
    /\ Advance(2)
    /\ UNCHANGED <<num_parties, num_parcels, num_bills, pre, rng>>

----------------------------------------------------------------------------
(* 9) TAX PAYMENTS, and the paid flags                                     *)

\* Mutant: the half is rounded up.
HalfCountCeil(n) == (n + 1) \div 2

\* k = len(inserted_bills)//2
HalfCount(n) == n \div 2

BeginPaymentsStep(r, q) ==
    [r EXCEPT !.pc = "payments", !.i = 0, !.j = 0, !.how_many = 0,
              !.half_bills =
                  Sample(r.inserted_bills, HalfCount(Len(r.inserted_bills)), q),
              !.out = Append(@, "Inserting TaxPayments...")]

BeginPayments ==
    /\ At("bills")
    /\ \A s \in Scripts : st[s].i >= num_bills
    /\ LET n == MaxLen("inserted_bills")
       IN  \E q \in SampleDraws(n, HalfCount(n)) :
              st' = [s \in Scripts |-> BeginPaymentsStep(st[s], q)]
    /\ Advance(1)
    /\ UNCHANGED <<num_parties, num_parcels, num_bills, pre, rng>>

\* Mutant: the draw is from 2..3.
DrawHowManyStepUpToThree(r, u) == [r EXCEPT !.how_many = 2 + (u % 2), !.j = 0]

\* how_many = random.randint(1, 2), at the head of the outer loop's body
DrawHowManyStep(r, u) == [r EXCEPT !.how_many = 1 + (u % 2), !.j = 0]

DrawHowMany ==
    /\ At("payments")
    /\ \A s \in Scripts : st[s].i < Len(st[s].half_bills) /\ st[s].how_many = 0
    /\ \E u \in DrawSet(2) :
          st' = [s \in Scripts |-> DrawHowManyStep(st[s], u)]
    /\ Advance(1)
    /\ UNCHANGED <<num_parties, num_parcels, num_bills, pre, rng>>

\* one pass of the inner loop; the last pass moves the outer loop on
InsertTaxPaymentStep(r) ==
    LET b    == r.half_bills[r.i + 1]
        last == r.j + 1 >= r.how_many
    IN  [r EXCEPT !.db = Insert(@, "payment",
                                [payment_date |-> "date_between(b_date, today)",
                                 bill_date |-> b.bill_date,
                                 bill_uid |-> b.bill_uid]),
                  !.j = IF last THEN 0 ELSE @ + 1,
                  !.how_many = IF last THEN 0 ELSE @,
                  !.i = IF last THEN @ + 1 ELSE @]

InsertTaxPayment ==
    /\ At("payments")
    /\ \A s \in Scripts : st[s].how_many > 0 /\ st[s].j < st[s].how_many
    /\ \E ok \in BOOLEAN, rb_ok \in BOOLEAN :
          st' = [s \in Scripts |->
                    Execute(st[s], ok, rb_ok, InsertTaxPaymentStep(st[s]))]
    /\ Advance(1)
    /\ UNCHANGED <<num_parties, num_parcels, num_bills, pre, rng>>

BeginPaidStep(r) == [r EXCEPT !.pc = "paid", !.i = 0]

BeginPaid ==
    /\ At("payments")
    /\ \A s \in Scripts : st[s].i >= Len(st[s].half_bills) /\ st[s].how_many = 0
    /\ st' = [s \in Scripts |-> BeginPaidStep(st[s])]
    /\ UNCHANGED <<num_parties, num_parcels, num_bills, pre, rng, rnd>>

\* Mutant: the flag follows the payments, as the comment's "real logic" would.
MarkPaidStepFromPayments(r, u, ok, rb_ok) ==
    LET b == r.inserted_bills[r.i + 1]
    IN  IF \E p \in Range(r.db.payment) :
               p.bill_date = b.bill_date /\ p.bill_uid = b.bill_uid
        THEN Execute(r, ok, rb_ok,
                 [r EXCEPT !.db = UpdatePaid(@, b), !.i = @ + 1])
        ELSE [r EXCEPT !.i = @ + 1]

\* if random.random() < 0.5: UPDATE ... SET is_paid = TRUE
MarkPaidStep(r, u, ok, rb_ok) ==
    IF u % 2 = 0
    THEN Execute(r, ok, rb_ok,
             [r EXCEPT !.db = UpdatePaid(@, r.inserted_bills[r.i + 1]),
                       !.i = @ + 1])
    ELSE [r EXCEPT !.i = @ + 1]

MarkPaid ==
    /\ At("paid")
    /\ \A s \in Scripts : st[s].i < Len(st[s].inserted_bills)
    /\ \E u \in DrawSet(2), ok \in BOOLEAN, rb_ok \in BOOLEAN :
          st' = [s \in Scripts |-> MarkPaidStep(st[s], u, ok, rb_ok)]
    /\ Advance(1)
    /\ UNCHANGED <<num_parties, num_parcels, num_bills, pre, rng>>

----------------------------------------------------------------------------
(* Commit, and the finally clause.                                         *)

\* conn.commit(); print("=== Seeding Completed Successfully! ===")
CommitStep(r, ok, rb_ok) ==
    IF ok
    THEN [r EXCEPT !.pc = "finally", !.commits = @ + 1, !.committed = r.db,
                   !.out = Append(@, "=== Seeding Completed Successfully! ===")]
    ELSE Handler([r EXCEPT !.commits = @ + 1], DbError("commit"), rb_ok)

Commit ==
    /\ At("paid")
    /\ \A s \in Scripts : st[s].i >= Len(st[s].inserted_bills)
    /\ \E ok \in BOOLEAN, rb_ok \in BOOLEAN :
          st' = [s \in Scripts |-> CommitStep(st[s], ok, rb_ok)]
    /\ UNCHANGED <<num_parties, num_parcels, num_bills, pre, rng, rnd>>

\* finally: cur.close(); conn.close()
\* close_ok: cur.close() returns.  If it raises, conn.close() is not reached and
\* its exception is the one that leaves seed_data.  Closing the connection ends
\* the session, and with it whatever the transaction had not committed.
FinallyStep(r, close_ok) ==
    IF close_ok
    THEN [r EXCEPT !.pc = "exited", !.cur = "closed", !.conn = "closed",
                   !.db = r.committed]
    ELSE [r EXCEPT !.pc = "exited", !.exc = CursorCloseError]

Finally ==
    /\ At("finally")
    /\ \E close_ok \in BOOLEAN :
          st' = [s \in Scripts |-> FinallyStep(st[s], close_ok)]
    /\ UNCHANGED <<num_parties, num_parcels, num_bills, pre, rng, rnd>>

----------------------------------------------------------------------------
Next ==
    \/ Connect
    \/ CreateCursor
    \/ BeginParties
    \/ InsertParty
    \/ BeginSpatial
    \/ InsertSpatialUnit
    \/ BeginBAUnit
    \/ InsertBAUnit
    \/ BeginTaxRateArea
    \/ InsertTaxRateArea
    \/ BeginTaxRate
    \/ InsertTaxRate
    \/ BeginAssign
    \/ AssignTra
    \/ BeginAssessment
    \/ InsertTaxAssessment
    \/ BeginSupplemental
    \/ InsertSupplemental
    \/ BeginRRR
    \/ InsertRRR
    \/ BeginBills
    \/ InsertTaxBill
    \/ BeginPayments
    \/ DrawHowMany
    \/ InsertTaxPayment
    \/ BeginPaid
    \/ MarkPaid
    \/ Commit
    \/ Finally

Spec == Init /\ [][Next]_vars

----------------------------------------------------------------------------
(* What a run wrote: the rows of a view that were not there before it.     *)

RunRows(d, tbl) == SubSeq(d[tbl], pre + 1, Len(d[tbl]))

RunCount(d, tbl) == Len(d[tbl]) - pre

\* The keys RETURNING handed to the run for the rows it inserted into tbl.
RunIds(d, tbl, key) == {row[key] : row \in Range(RunRows(d, tbl))}

RunBillKeys(d) ==
    {[bill_date |-> row.bill_date, bill_uid |-> row.bill_uid] :
        row \in Range(RunRows(d, "bill"))}

\* The run's bills that some TaxPayment row references.
BillsWithPayment(d) ==
    {b \in Range(RunRows(d, "bill")) :
        \E p \in Range(d.payment) :
            p.bill_date = b.bill_date /\ p.bill_uid = b.bill_uid}

\* conn.commit() was called and returned.
Committed(r) == r.commits = 1 /\ r.first_exc = NoExc

PhaseLines ==
    {"Inserting Parties...", "Inserting SpatialUnits...", "Inserting BAUnits...",
     "Inserting TaxRateArea & TaxRate...", "Inserting TaxAssessments...",
     "Inserting SupplementalAssessments...", "Inserting RRR (Ownership)...",
     "Inserting TaxBills...", "Inserting TaxPayments..."}

TryPhases ==
    {"parties", "spatial", "baunit", "tra", "taxrate", "assign", "assess",
     "supp", "rrr", "bills", "payments", "paid"}

----------------------------------------------------------------------------
(* C1 *)

\* C1, as claimed: a run that commits has inserted exactly num_parties LA_Party
\* rows, num_parcels LA_SpatialUnit rows, num_parcels LA_BAUnit rows and
\* num_bills TaxBill rows.  Fails for a negative count: range() of a negative
\* number is empty, and the run commits with 0 rows of that table.
C1_ExactCountsAsClaimed ==
    \A s \in Scripts :
        Committed(st[s]) =>
            /\ RunCount(st[s].committed, "party") = num_parties
            /\ RunCount(st[s].committed, "spatial") = num_parcels
            /\ RunCount(st[s].committed, "baunit") = num_parcels
            /\ RunCount(st[s].committed, "bill") = num_bills

\* C1, amended: a run that commits has inserted exactly max(N, 0) LA_Party rows,
\* max(M, 0) LA_SpatialUnit rows, max(M, 0) LA_BAUnit rows and max(K, 0) TaxBill
\* rows.
C1_ExactCounts ==
    \A s \in Scripts :
        Committed(st[s]) =>
            /\ RunCount(st[s].committed, "party") = Max(num_parties, 0)
            /\ RunCount(st[s].committed, "spatial") = Max(num_parcels, 0)
            /\ RunCount(st[s].committed, "baunit") = Max(num_parcels, 0)
            /\ RunCount(st[s].committed, "bill") = Max(num_bills, 0)

C1_Witness ==
    /\ num_parties >= 2 /\ num_parcels >= 5 /\ num_bills >= 3 /\ pre >= 1
    /\ \A s \in Scripts : Committed(st[s]) /\ st[s].pc = "exited"

----------------------------------------------------------------------------
(* C2 *)

\* C2: if a statement of one of the nine phases (or of the paid-flag loop)
\* raises, nothing of the run is committed: the committed state of the database
\* is the state before the run, at every later point.
C2_FailureCommitsNothing ==
    \A s \in Scripts :
        st[s].first_exc.at \in TryPhases => st[s].committed = PreDB(pre)

C2_Witness ==
    /\ pre >= 1
    /\ \A s \in Scripts :
          /\ st[s].pc = "exited"
          /\ st[s].first_exc = DbError("payments")
          /\ st[s].rollbacks = 1

----------------------------------------------------------------------------
(* C3 *)

\* C3, as claimed: after a successful run exactly floor(K/2) of the inserted
\* bills have a TaxPayment row.  Fails for K < 0: floor(K/2) is negative, the
\* run inserts no bill and none has a payment.
C3_HalfPaidAsClaimed ==
    \A s \in Scripts :
        Committed(st[s]) =>
            Cardinality(BillsWithPayment(st[s].committed)) = num_bills \div 2

\* C3, amended: after a successful run exactly floor(max(K, 0)/2) of the inserted
\* bills have at least one TaxPayment row referencing them, and every other
\* inserted bill has none.
C3_HalfPaid ==
    \A s \in Scripts :
        Committed(st[s]) =>
            /\ Cardinality(BillsWithPayment(st[s].committed))
                  = Max(num_bills, 0) \div 2
            /\ Cardinality(Range(RunRows(st[s].committed, "bill"))
                              \ BillsWithPayment(st[s].committed))
                  = Max(num_bills, 0) - (Max(num_bills, 0) \div 2)

C3_Witness ==
    /\ num_bills >= 3
    /\ \A s \in Scripts :
          /\ Committed(st[s])
          /\ Cardinality(BillsWithPayment(st[s].committed)) >= 1
          /\ RunCount(st[s].committed, "payment") >= 2

----------------------------------------------------------------------------
(* C4 *)

\* C4, as claimed: after a successful run the run has inserted
\* min(floor(M/5), 10) SupplementalAssessment rows.  Fails for M < 0, where
\* floor(M/5) is negative and the run inserts none.
C4_SuppCountAsClaimed ==
    \A s \in Scripts :
        Committed(st[s]) =>
            RunCount(st[s].committed, "supp") = Min(num_parcels \div 5, 10)

\* C4, amended: after a successful run the run has inserted
\* min(floor(max(M, 0)/5), 10) SupplementalAssessment rows.
C4_SuppCount ==
    \A s \in Scripts :
        Committed(st[s]) =>
            RunCount(st[s].committed, "supp") = Min(Max(num_parcels, 0) \div 5, 10)

\* The cap decides: 55 parcels, 10 supplemental rows.
C4_Witness ==
    /\ num_parcels \div 5 > 10
    /\ \A s \in Scripts :
          Committed(st[s]) /\ RunCount(st[s].committed, "supp") = 10

----------------------------------------------------------------------------
(* C5 *)

AfterAssign(r) ==
    \/ r.pc \in {"assess", "supp", "rrr", "bills", "payments", "paid"}
    \/ Committed(r)

\* C5: from the end of the TRA assignment loop up to and including the commit,
\* every BAUnit the run inserted has a tra_id that is one of the three
\* identifiers this run's TaxRateArea inserts returned.
C5_TraAssigned ==
    \A s \in Scripts :
        AfterAssign(st[s]) =>
            /\ Len(st[s].tra_ids_map) = 3
            /\ Range(st[s].tra_ids_map) = RunIds(st[s].db, "tra", "tra_id")
            /\ Cardinality(Range(st[s].tra_ids_map)) = 3
            /\ \A row \in Range(RunRows(st[s].db, "baunit")) :
                  row.tra_id \in Range(st[s].tra_ids_map)
            /\ Committed(st[s]) =>
                  \A row \in Range(RunRows(st[s].committed, "baunit")) :
                      row.tra_id \in Range(st[s].tra_ids_map)

C5_Witness ==
    /\ pre >= 1
    /\ \A s \in Scripts :
          /\ Committed(st[s])
          /\ RunCount(st[s].committed, "baunit") >= 2
          /\ \E a, b \in Range(RunRows(st[s].committed, "baunit")) :
                a.tra_id # b.tra_id

----------------------------------------------------------------------------
(* C6 *)

\* Every foreign key of every row the run wrote into view d is a key the run's
\* own inserts returned, and the rows that were there before are as they were.
References(d) ==
    LET spatials == RunIds(d, "spatial", "spatial_unit_id")
        tras     == RunIds(d, "tra", "tra_id") \cup {NULL}
        baunits  == RunIds(d, "baunit", "ba_unit_id")
        rates    == RunIds(d, "taxrate", "tax_rate_id")
        parties  == RunIds(d, "party", "party_id")
        bills    == RunBillKeys(d)
        before   == PreDB(pre)
    IN  /\ \A row \in Range(RunRows(d, "baunit")) :
              row.spatial_unit_id \in spatials /\ row.tra_id \in tras
        /\ \A tbl \in {"assessment", "supp"} :
              \A row \in Range(RunRows(d, tbl)) :
                  row.ba_unit_id \in baunits /\ row.tax_rate_id \in rates
        /\ \A tbl \in {"rrr", "bill"} :
              \A row \in Range(RunRows(d, tbl)) :
                  row.ba_unit_id \in baunits /\ row.party_id \in parties
        /\ \A row \in Range(RunRows(d, "payment")) :
              [bill_date |-> row.bill_date, bill_uid |-> row.bill_uid] \in bills
        /\ \A tbl \in Tables : SubSeq(d[tbl], 1, pre) = before[tbl]

\* C6: at every point of a run, every foreign-key value the run has passed to an
\* insert or update is a value an earlier insert of the same run returned: the
\* lists the frame keeps hold only such values, and no row of the run references
\* an identifier the run did not insert.
C6_ForeignKeysFromRun ==
    \A s \in Scripts :
        LET r == st[s]
        IN  /\ References(r.db)
            /\ r.committed # r.db => References(r.committed)
            /\ Range(r.party_ids) \subseteq RunIds(r.db, "party", "party_id")
            /\ Range(r.spatial_ids)
                  \subseteq RunIds(r.db, "spatial", "spatial_unit_id")
            /\ Range(r.baunit_ids) \subseteq RunIds(r.db, "baunit", "ba_unit_id")
            /\ Range(r.tra_ids_map) \subseteq RunIds(r.db, "tra", "tra_id")
            /\ Range(r.tax_rate_ids)
                  \subseteq RunIds(r.db, "taxrate", "tax_rate_id")
            /\ Range(r.subset_for_supp) \subseteq Range(r.baunit_ids)
            /\ Range(r.inserted_bills) \subseteq RunBillKeys(r.db)
            /\ Range(r.half_bills) \subseteq Range(r.inserted_bills)

C6_Witness ==
    /\ pre >= 1
    /\ \A s \in Scripts :
          /\ st[s].pc = "paid"
          /\ RunCount(st[s].db, "payment") >= 1
          /\ RunCount(st[s].db, "rrr") >= 2
          /\ \E row \in Range(RunRows(st[s].db, "bill")) : row.is_paid

----------------------------------------------------------------------------
(* C7 *)

\* C7, as claimed: every run that has acquired the connection ends with the
\* connection closed, whether it commits or any later step fails.  Fails when
\* conn.cursor() raises (it is called before the try statement, so the finally
\* clause never runs) and when cur.close() raises (conn.close() is skipped).
C7_ConnectionClosed ==
    \A s \in Scripts :
        st[s].pc = "exited" /\ st[s].conn # "none" => st[s].conn = "closed"

----------------------------------------------------------------------------
(* C8 *)

\* C8, as claimed: when the try block raises, the run rolls back exactly once,
\* the exception that leaves seed_data is the one that was raised, and the run
\* does not report success.  Fails when conn.rollback() or cur.close() raises in
\* turn: their exception replaces the original.
C8_OriginalExceptionLeaves ==
    \A s \in Scripts :
        st[s].pc = "exited" /\ st[s].first_exc # NoExc =>
            /\ st[s].rollbacks = 1
            /\ st[s].exc = st[s].first_exc
            /\ "=== Seeding Completed Successfully! ===" \notin Range(st[s].out)

----------------------------------------------------------------------------
(* C9 *)

\* The generated text and place: party name, address and point.
EraseNames(d) ==
    [d EXCEPT !.party = [t \in DOMAIN @ |-> [@[t] EXCEPT !.party_name = "*"]],
              !.spatial = [t \in DOMAIN @ |->
                              [@[t] EXCEPT !.address = "*", !.geometry = "*"]]]

EraseFlavour(d) ==
    [EraseNames(d) EXCEPT
        !.baunit = [t \in DOMAIN @ |-> [@[t] EXCEPT !.description = "*"]]]

\* C9, as claimed: side by side, with the same counts and the same random
\* choices, the two scripts are at the same program point, have printed the same
\* phases, hold the same identifier lists and have written the same rows with
\* the same foreign keys, up to the generated address (text and point) and name
\* text.  Fails: seeder_rc.py also writes a description ("Household Size: n")
\* into every BAUnit, a column seeder.py leaves unset.
C9_SameUpToNamesAsClaimed ==
    LET a == st["seeder"]
        b == st["seeder_rc"]
    IN  [a EXCEPT !.db = EraseNames(@), !.committed = EraseNames(@)]
          = [b EXCEPT !.db = EraseNames(@), !.committed = EraseNames(@)]

\* C9, amended: ... the same rows with the same foreign keys, differing only in
\* the generated address and name text, the bounding box of the point, and the
\* BAUnit description, which only seeder_rc.py writes.
C9_SameUpToFlavour ==
    LET a == st["seeder"]
        b == st["seeder_rc"]
    IN  [a EXCEPT !.db = EraseFlavour(@), !.committed = EraseFlavour(@)]
          = [b EXCEPT !.db = EraseFlavour(@), !.committed = EraseFlavour(@)]

C9_Witness ==
    /\ \A s \in Scripts :
          /\ Committed(st[s]) /\ st[s].pc = "exited"
          /\ RunCount(st[s].committed, "payment") >= 1
    /\ \E row \in Range(RunRows(st["seeder_rc"].committed, "party")) :
          row.party_type = "GovAgency" /\ row.party_name = "RIVERSIDE_AGENCIES"
    /\ \E row \in Range(RunRows(st["seeder"].committed, "party")) :
          row.party_type = "GovAgency" /\ row.party_name = "fake.name"

----------------------------------------------------------------------------
(* C10 *)

\* C10: the whole run is one transaction.  conn.commit() is called at most once;
\* as long as it has not been called, the committed state is the state before
\* the run; and when it is called, all nine phases have been entered, no
\* statement before it has raised, and, if it returns, the paid-flag loop has
\* gone through every inserted bill.
C10_SingleTransaction ==
    \A s \in Scripts :
        /\ st[s].commits <= 1
        /\ st[s].commits = 0 => st[s].committed = PreDB(pre)
        /\ st[s].commits = 1 =>
              /\ PhaseLines \subseteq Range(st[s].out)
              /\ st[s].first_exc \in {NoExc, DbError("commit")}
              /\ st[s].pc \in {"finally", "exited"}
              /\ Committed(st[s]) =>
                    /\ Len(st[s].inserted_bills) = Max(num_bills, 0)
                    /\ st[s].i = Len(st[s].inserted_bills)
                    /\ st[s].how_many = 0

C10_Witness ==
    /\ pre >= 1
    /\ \A s \in Scripts :
          /\ st[s].commits = 1
          /\ st[s].committed # PreDB(pre)
          /\ RunCount(st[s].committed, "payment") >= 1

----------------------------------------------------------------------------
(* C11 *)

\* The row of TaxBill with the key (bill_date, bill_uid).
BillRow(d, key) ==
    CHOOSE row \in Range(d.bill) :
        row.bill_date = key.bill_date /\ row.bill_uid = key.bill_uid

\* The TaxPayment rows that carry the key (bill_date, bill_uid).
PaymentsOf(d, key) ==
    {t \in DOMAIN d.payment :
        d.payment[t].bill_date = key.bill_date
            /\ d.payment[t].bill_uid = key.bill_uid}

\* The paid-flag loop passes its current bill, without an error, and leaves the
\* bill's flag at the value flag.
PaidOutcome(flag) ==
    /\ MarkPaid
    /\ \A s \in Scripts :
          /\ st'[s].pc = "paid"
          /\ BillRow(st'[s].db, st[s].inserted_bills[st[s].i + 1]).is_paid = flag

\* C11: the paid flag of a bill is set independently of its payments.  No bill
\* of the run is flagged before the paid-flag loop reaches it, and when the loop
\* reaches a bill, both outcomes (is_paid = TRUE, is_paid = FALSE) are possible
\* whatever payment rows the bill has; so there are committed states with a paid
\* bill without payments and with an unpaid bill with payments.
C11_PaidFlagIndependent ==
    /\ \A s \in Scripts :
          LET r == st[s]
          IN  /\ r.pc \in {"bills", "payments"} =>
                    \A row \in Range(RunRows(r.db, "bill")) : ~row.is_paid
              /\ r.pc = "paid" =>
                    \A t \in (r.i + 1) .. Len(r.inserted_bills) :
                        ~BillRow(r.db, r.inserted_bills[t]).is_paid
    /\ (/\ rng = "free"
        /\ At("paid")
        /\ \A s \in Scripts : st[s].i < Len(st[s].inserted_bills))
          => ENABLED PaidOutcome(TRUE) /\ ENABLED PaidOutcome(FALSE)

\* A committed state with a bill marked paid that has no payment row and a bill
\* left unpaid that has one.
C11_Witness ==
    /\ num_bills >= 2
    /\ \A s \in Scripts :
          LET d == st[s].committed
          IN  /\ Committed(st[s]) /\ st[s].pc = "exited"
              /\ \E b \in RunBillKeys(d) :
                    BillRow(d, b).is_paid /\ PaymentsOf(d, b) = {}
              /\ \E b \in RunBillKeys(d) :
                    ~BillRow(d, b).is_paid /\ PaymentsOf(d, b) # {}

----------------------------------------------------------------------------
(* C12 *)

\* What the payment phase has written into view d for the bills chosen (half)
\* among the run's bills: each chosen bill has 1 or 2 TaxPayment rows, no other
\* bill of the run has any, and every TaxPayment row of the run carries the key
\* of a chosen bill.
PaymentsAsDrawn(d, half) ==
    /\ \A b \in Range(half) : Cardinality(PaymentsOf(d, b)) \in {1, 2}
    /\ \A b \in RunBillKeys(d) \ Range(half) : PaymentsOf(d, b) = {}
    /\ \A row \in Range(RunRows(d, "payment")) :
          [bill_date |-> row.bill_date, bill_uid |-> row.bill_uid] \in Range(half)

\* C12, as claimed: ... and the total number of TaxPayment rows of a successful
\* run lies between floor(K/2) and 2*floor(K/2).  Fails for K < 0: the run
\* commits with no payment row, and 0 > 2*floor(K/2).
C12_PaymentTotalAsClaimed ==
    \A s \in Scripts :
        Committed(st[s]) =>
            /\ PaymentsAsDrawn(st[s].committed, st[s].half_bills)
            /\ RunCount(st[s].committed, "payment") >= num_bills \div 2
            /\ RunCount(st[s].committed, "payment") <= 2 * (num_bills \div 2)

\* C12, amended: every bill chosen for payment receives exactly 1 or exactly 2
\* TaxPayment rows, each carrying that bill's own (bill_date, bill_uid) key; at
\* no point of a run does a bill have more than 2 payment rows; and the total
\* number of payment rows of a successful run lies between floor(max(K, 0)/2)
\* and 2*floor(max(K, 0)/2).
C12_OneOrTwoPayments ==
    \A s \in Scripts :
        LET r == st[s]
            h == Max(num_bills, 0) \div 2
        IN  /\ \A b \in RunBillKeys(r.db) : Cardinality(PaymentsOf(r.db, b)) <= 2
            /\ r.pc = "payments" =>
                  /\ Len(r.half_bills) = h
                  /\ Cardinality(Range(r.half_bills)) = h
                  /\ \A t \in 1 .. r.i :
                        Cardinality(PaymentsOf(r.db, r.half_bills[t])) \in {1, 2}
                  /\ r.how_many \in 0 .. 2
                  /\ r.i < h =>
                        Cardinality(PaymentsOf(r.db, r.half_bills[r.i + 1])) = r.j
                  /\ \A row \in Range(RunRows(r.db, "payment")) :
                        [bill_date |-> row.bill_date, bill_uid |-> row.bill_uid]
                            \in {r.half_bills[t] : t \in 1 .. Min(r.i + 1, h)}
            /\ r.pc = "paid" => PaymentsAsDrawn(r.db, r.half_bills)
            /\ Committed(r) =>
                  /\ PaymentsAsDrawn(r.committed, r.half_bills)
                  /\ RunCount(r.committed, "payment") >= h
                  /\ RunCount(r.committed, "payment") <= 2 * h

\* A committed state with a bill that received one payment row and a bill that
\* received two.
C12_Witness ==
    /\ num_bills >= 4
    /\ \A s \in Scripts :
          /\ Committed(st[s])
          /\ \E b \in Range(st[s].half_bills) :
                Cardinality(PaymentsOf(st[s].committed, b)) = 1
          /\ \E b \in Range(st[s].half_bills) :
                Cardinality(PaymentsOf(st[s].committed, b)) = 2

----------------------------------------------------------------------------
(* C13 *)

\* The rows the run inserted into tbl of view d for the unit buid.
RunRowsOfUnit(d, tbl, buid) ==
    {t \in (pre + 1) .. Len(d[tbl]) : d[tbl][t].ba_unit_id = buid}

\* C13: after a successful run every BAUnit the run inserted has exactly one
\* TaxAssessment row and exactly one LA_RRR row, of type Ownership, and the run
\* has written no TaxAssessment or LA_RRR row for any other unit.
C13_OneAssessmentOneOwnership ==
    \A s \in Scripts :
        Committed(st[s]) =>
            LET d     == st[s].committed
                units == RunIds(d, "baunit", "ba_unit_id")
            IN  /\ Cardinality(units) = RunCount(d, "baunit")
                /\ \A b \in units :
                      /\ Cardinality(RunRowsOfUnit(d, "assessment", b)) = 1
                      /\ Cardinality(RunRowsOfUnit(d, "rrr", b)) = 1
                /\ \A row \in Range(RunRows(d, "assessment")) :
                      row.ba_unit_id \in units
                /\ \A row \in Range(RunRows(d, "rrr")) :
                      row.ba_unit_id \in units /\ row.rrr_type = "Ownership"

C13_Witness ==
    /\ pre >= 1
    /\ \A s \in Scripts :
          /\ Committed(st[s])
          /\ RunCount(st[s].committed, "baunit") >= 4
          /\ RunCount(st[s].committed, "rrr") >= 4
          /\ RunCount(st[s].committed, "assessment") >= 4

----------------------------------------------------------------------------
(* C14 *)

\* C14: the BAUnits chosen for a supplemental assessment are pairwise distinct,
\* and at no point of a run, nor in what it commits, does a BAUnit the run
\* inserted have more than one SupplementalAssessment row from the run.
C14_SupplementalDistinct ==
    \A s \in Scripts :
        LET r == st[s]
        IN  /\ Cardinality(Range(r.subset_for_supp)) = Len(r.subset_for_supp)
            /\ \A d \in {r.db, r.committed} :
                  \A b \in RunIds(d, "supp", "ba_unit_id") :
                      Cardinality(RunRowsOfUnit(d, "supp", b)) = 1

\* A committed state with supplemental assessments for several units.
C14_Witness ==
    /\ pre >= 1
    /\ \A s \in Scripts :
          /\ Committed(st[s])
          /\ RunCount(st[s].committed, "supp") >= 2
          /\ Cardinality(RunIds(st[s].committed, "supp", "ba_unit_id"))
                = RunCount(st[s].committed, "supp")

----------------------------------------------------------------------------
(* C15 *)

\* The ownership phase has units to go through and no party to choose from.
EmptyPoolAtRRR == num_parties <= 0 /\ num_parcels >= 1

\* The bill phase has bills to insert and no unit or no party to choose from.
EmptyPoolAtBills == num_bills >= 1 /\ (num_parcels <= 0 \/ num_parties <= 0)

\* C15: with num_parties <= 0 and num_parcels >= 1, or num_parcels <= 0 and
\* num_bills >= 1, or num_parties <= 0 and num_bills >= 1, a run never commits:
\* it cannot pass the phase that draws from the empty list (the ownership phase
\* in the first case, the bill phase otherwise), it leaves seed_data with an
\* exception, after one call of conn.rollback() if the try block was entered,
\* and the committed state stays the state before the run.  With every other
\* combination of counts no draw from an empty list is made.
C15_EmptyPoolNeverCommits ==
    \A s \in Scripts :
        LET r == st[s]
        IN  /\ EmptyPoolAtRRR \/ EmptyPoolAtBills =>
                  /\ r.commits = 0
                  /\ r.committed = PreDB(pre)
                  /\ r.pc \notin {"payments", "paid"}
                  /\ EmptyPoolAtRRR => r.pc # "bills"
                  /\ r.first_exc.type = "IndexError" =>
                        r.first_exc.at = IF EmptyPoolAtRRR THEN "rrr" ELSE "bills"
                  /\ r.pc = "exited" =>
                        /\ r.exc # NoExc
                        /\ r.cur # "none" =>
                              r.first_exc # NoExc /\ r.rollbacks = 1
            /\ ~(EmptyPoolAtRRR \/ EmptyPoolAtBills) =>
                  r.first_exc.type # "IndexError" /\ r.exc.type # "IndexError"

\* A run with units and no party: the rows of six phases are written, the
\* ownership phase raises IndexError, and the run has left with it after the
\* rollback, the tables as they were.
C15_Witness ==
    /\ pre >= 1 /\ num_parties <= 0 /\ num_parcels >= 1
    /\ \A s \in Scripts :
          /\ st[s].pc = "exited"
          /\ st[s].first_exc = IndexError("rrr")
          /\ st[s].exc = IndexError("rrr")
          /\ st[s].rollbacks = 1
          /\ st[s].conn = "closed"
          /\ st[s].committed = PreDB(pre)
          /\ "Error during seeding. Rolled back transaction." \in Range(st[s].out)

====
